---- MODULE Spec2Model ----
(***************************************************************************)
(* Model of AutopoieticAgent (src/autopoietic_learner.py): the energy      *)
(* ledger, perception, three-tier action selection, food consumption, the  *)
(* energy-gated learning step and the live_and_learn episode loop.         *)
(*                                                                         *)
(* Representation.  Python floats are modelled as fixed-point integers:    *)
(*   energy, costs, gains, thresholds : units of 0.001 energy              *)
(*                                      (100.0 -> 100000, 0.02 -> 20)      *)
(*   epsilon, uniform draws in [0,1)  : units of 0.000001 (0.5 -> 500000)  *)
(*   epsilon_decay                    : per mille (0.998 -> 998)           *)
(*   planar coordinates               : units of 0.1 (0.8 -> 8)            *)
(*   distances                        : compared through their squares     *)
(*   reward                           : units of 0.001                     *)
(* Floating-point rounding error is not modelled.  The physics engine and  *)
(* the neural network are external collaborators: the position a physics   *)
(* step leaves the robot at and the argmax of the network's scores are     *)
(* inputs drawn from small sets; the network's weights are modelled by the *)
(* number of optimizer steps applied to them.                              *)
(***************************************************************************)
EXTENDS Integers, Sequences, FiniteSets, TLC

VARIABLES agent, world, loop, audit

vars == <<agent, world, loop, audit>>

(***************************************************************************)
(* Bounds of the model.                                                    *)
(***************************************************************************)
\* largest max_steps passed to live_and_learn
MaxSteps == 3
\* number of direct method calls explored in SpecAPI
MaxCalls == 2
\* number of further calls of live_and_learn explored in SpecRestart
MaxRestarts == 1
\* longest history handed to get_survival_stats in SpecStats
MaxHistory == 3

(***************************************************************************)
(* Program constants.                                                      *)
(***************************************************************************)
ConsumeRadius == 8
HeuristicRadius == 40
HeuristicChance == 500000
CoinUnit == 1000000
NumActions == 4
ForceMagnitude == 40
NumFood == 16
GainLow == 15000
GainHigh == 25000
SpawnLow == -50
SpawnHigh == 50
EatReward == 50000
MaxDist == 120
ExistencePenalty == -5
Infinity == 1000000000

Min(a, b) == IF a < b THEN a ELSE b
Max(a, b) == IF a > b THEN a ELSE b

(***************************************************************************)
(* Attribute settings.  __init__ sets the defaults; the harnesses override *)
(* the public attributes before calling live_and_learn                     *)
(* (src/test_emergence.py:32-34).  The settings below keep the relations   *)
(* __init__ establishes: 0 < energy <= max_energy, costs >= 0,             *)
(* epsilon_min <= epsilon.                                                 *)
(***************************************************************************)
DefaultSettings ==
    [energy |-> 100000, max_energy |-> 150000, energy_decay |-> 100,
     landauer_cost |-> 10, sensing_cost |-> 20, acting_cost |-> 30,
     learning_cost |-> 50, learning_threshold |-> 50000,
     epsilon |-> 500000, epsilon_decay |-> 998, epsilon_min |-> 100000]

\* Scenario A of the specification: nothing costs anything.
FreeSettings ==
    [DefaultSettings EXCEPT !.energy_decay = 0, !.sensing_cost = 0,
                            !.acting_cost = 0, !.learning_cost = 0]

\* starting energies: dead on the first check, about to die, around the
\* learning threshold, at the cap
StartEnergies == {100, 270, 330, 10000, 50150, 50180, 150000}

EnergySettings ==
    {[DefaultSettings EXCEPT !.energy = e] : e \in StartEnergies}
    \cup {FreeSettings}

\* a faster exploration decay, so that the floor is reached within MaxSteps
EpsilonSettings ==
    {[epsilon |-> 500000, epsilon_decay |-> 998, epsilon_min |-> 100000],
     [epsilon |-> 150000, epsilon_decay |-> 500, epsilon_min |-> 100000]}

\* the energy settings under the default exploration schedule, and the default
\* energy settings under each exploration schedule
Settings ==
    EnergySettings
    \cup {[DefaultSettings EXCEPT !.epsilon = e.epsilon,
                                  !.epsilon_decay = e.epsilon_decay,
                                  !.epsilon_min = e.epsilon_min] :
             e \in EpsilonSettings}

(***************************************************************************)
(* The world the physics collaborator holds.                               *)
(***************************************************************************)
\* positions the robot can be found at after a physics step
RobotCells == {<<0, 0>>, <<0, 45>>}
\* positions np.random.uniform(-5, 5) can place a food item at
SpawnCells ==
    {c \in {<<3, 4>>, <<-50, 50>>} :
        \A k \in 1..2 : SpawnLow <= c[k] /\ c[k] <= SpawnHigh}
\* the items of a placement after its first two, along the far edge
Fillers == [k \in 1..(NumFood - 2) |-> <<50, 50 - k>>]
\* a placement of the NumFood items spawn_food creates
Layout(first, second) == <<first, second>> \o Fillers
\* food placements left by spawn_food: one item within reach of the robot's
\* start, or none
FoodLayouts ==
    {Layout(<<5, 0>>, <<-50, 50>>), Layout(<<50, -50>>, <<-50, 50>>)}
\* energy gains np.random.uniform(15, 25) can draw
GainDraws == {GainLow, GainHigh}
\* values np.random.random() can draw
CoinDraws == {0, 120000, 500000}
\* max_steps arguments
StepBudgets == {0, 1, MaxSteps}

Dist2(p, q) == (p[1] - q[1]) * (p[1] - q[1]) + (p[2] - q[2]) * (p[2] - q[2])

(***************************************************************************)
(* State after construction.                                               *)
(***************************************************************************)
\* the fields __init__ gives the instance, under the settings s
NewAgent(s) ==
    [energy |-> s.energy, max_energy |-> s.max_energy,
     energy_decay |-> s.energy_decay, landauer_cost |-> s.landauer_cost,
     sensing_cost |-> s.sensing_cost, acting_cost |-> s.acting_cost,
     learning_cost |-> s.learning_cost,
     learning_threshold |-> s.learning_threshold,
     epsilon |-> s.epsilon, epsilon_decay |-> s.epsilon_decay,
     epsilon_min |-> s.epsilon_min,
     updates |-> 0, history |-> <<>>, step_count |-> 0]

FoodItem(pos) == [pos |-> pos, live |-> TRUE]

\* the bodies setup_environment creates: the robot at the origin, the food
\* items where spawn_food drew them; the client __init__ connected is up
NewWorld(layout) ==
    [robot |-> <<0, 0>>,
     food |-> [i \in 1..Len(layout) |-> FoodItem(layout[i])],
     sim_steps |-> 0, forces |-> 0, up |-> TRUE]

NoObs == [pos |-> <<0, 0>>, rel |-> <<0, 0>>, min_dist2 |-> 0,
          norm_energy |-> <<0, 1>>]

\* what one tick did to the energy and to the policy (kept beside the history
\* for the accounting properties): energy at the start of the tick, energy
\* gained from food, learning cost charged, optimizer steps taken
\* and, for a food check, the squared distance to the nearest item when it
\* began, the index of the item it consumed (0: none), the number of gains
\* it added to the energy and the items whose lookup raised; for an act(),
\* the epsilon it was called with
NoAccount == [start |-> 0, gained |-> 0, charged |-> 0, updated |-> 0,
              near2 |-> 0, item |-> 0, epsilon |-> 0, grants |-> 0,
              unresolved |-> {}]

\* the observer's notebook: the values the episode started from and the
\* account of every completed tick
NewAudit(a) == [energy0 |-> a.energy, epsilon0 |-> a.epsilon, ticks |-> <<>>]

\* the locals of live_and_learn, before it is called
NewLoop ==
    [pc |-> "new", max_steps |-> 0, step |-> 0, obs |-> NoObs,
     action_idx |-> 0, tier |-> "none", ate_food |-> FALSE, reward |-> 0,
     can_learn |-> FALSE, status |-> "ALIVE", calls |-> 0, last |-> "none",
     base |-> 0, account |-> NoAccount]

(***************************************************************************)
(* sense                                                                   *)
(***************************************************************************)
RECURSIVE NearestFrom(_, _, _, _)
\* the scan of sense(): a strict < keeps the first item among equals, an item
\* that does not resolve is skipped
NearestFrom(rp, food, i, best) ==
    IF i > Len(food) THEN best
    ELSE IF food[i].live /\ Dist2(rp, food[i].pos) < best.min_dist2
         THEN NearestFrom(rp, food, i + 1,
                          [min_dist2 |-> Dist2(rp, food[i].pos),
                           pos |-> food[i].pos])
         ELSE NearestFrom(rp, food, i + 1, best)

\* a variant in which the last of several nearest items wins
RECURSIVE NearestFrom_LastWins(_, _, _, _)
NearestFrom_LastWins(rp, food, i, best) ==
    IF i > Len(food) THEN best
    ELSE IF food[i].live /\ Dist2(rp, food[i].pos) <= best.min_dist2
         THEN NearestFrom_LastWins(rp, food, i + 1,
                                   [min_dist2 |-> Dist2(rp, food[i].pos),
                                    pos |-> food[i].pos])
         ELSE NearestFrom_LastWins(rp, food, i + 1, best)

\* a variant that does not skip the items that fail to resolve
RECURSIVE NearestFrom_AnyItem(_, _, _, _)
NearestFrom_AnyItem(rp, food, i, best) ==
    IF i > Len(food) THEN best
    ELSE IF Dist2(rp, food[i].pos) < best.min_dist2
         THEN NearestFrom_AnyItem(rp, food, i + 1,
                                  [min_dist2 |-> Dist2(rp, food[i].pos),
                                   pos |-> food[i].pos])
         ELSE NearestFrom_AnyItem(rp, food, i + 1, best)

NearestFood_LastWins(rp, food) ==
    NearestFrom_LastWins(rp, food, 1,
                         [min_dist2 |-> Infinity, pos |-> <<0, 0>>])

NearestFood_AnyItem(rp, food) ==
    NearestFrom_AnyItem(rp, food, 1,
                        [min_dist2 |-> Infinity, pos |-> <<0, 0>>])

NearestFood(rp, food) ==
    NearestFrom(rp, food, 1, [min_dist2 |-> Infinity, pos |-> <<0, 0>>])

\* the observation vector; the normalized energy is kept as the fraction
\* energy / max_energy
Observation(a, w) ==
    LET n == NearestFood(w.robot, w.food) IN
    [pos |-> w.robot,
     rel |-> <<n.pos[1] - w.robot[1], n.pos[2] - w.robot[2]>>,
     min_dist2 |-> n.min_dist2,
     norm_energy |-> <<a.energy, a.max_energy>>]

\* a variant in which sensing also decays the exploration rate
ChargeSensing_DecayEpsilon(a) ==
    [a EXCEPT !.energy = @ - a.sensing_cost,
              !.epsilon = (@ * a.epsilon_decay) \div 1000]

\* a variant that also charges the unused landauer_cost
ChargeSensing_Landauer(a) ==
    [a EXCEPT !.energy = @ - a.sensing_cost - a.landauer_cost]

ChargeSensing(a) == [a EXCEPT !.energy = @ - a.sensing_cost]

sense(a, w) ==
    LET a1 == ChargeSensing(a) IN [agent |-> a1, obs |-> Observation(a1, w)]

(***************************************************************************)
(* act                                                                     *)
(***************************************************************************)
\* the force vector (x, y) act() applies for an action index
ForceOf(idx) ==
    CASE idx = 0 -> <<ForceMagnitude, 0>>
      [] idx = 1 -> <<-ForceMagnitude, 0>>
      [] idx = 2 -> <<0, ForceMagnitude>>
      [] idx = 3 -> <<0, -ForceMagnitude>>
Abs(x) == IF x < 0 THEN -x ELSE x

\* a variant that picks the axis with the smaller offset
HeuristicAction_MinorAxis(dx, dy) ==
    IF Abs(dx) < Abs(dy)
    THEN (IF dx > 0 THEN 0 ELSE 1)
    ELSE (IF dy > 0 THEN 2 ELSE 3)

\* the heuristic tier: toward the food along the axis of the larger offset
HeuristicAction(dx, dy) ==
    IF Abs(dx) > Abs(dy)
    THEN (IF dx > 0 THEN 0 ELSE 1)
    ELSE (IF dy > 0 THEN 2 ELSE 3)

\* a variant that explores when the draw equals epsilon
SelectAction_Inclusive(obs, epsilon, coin1, coin2, rnd, best) ==
    IF obs.min_dist2 < HeuristicRadius * HeuristicRadius
       /\ coin1 < HeuristicChance
    THEN [tier |-> "heuristic",
          idx |-> HeuristicAction(obs.rel[1], obs.rel[2])]
    ELSE IF coin2 <= epsilon
         THEN [tier |-> "explore", idx |-> rnd]
         ELSE [tier |-> "exploit", idx |-> best]

\* the three tiers, in the order act() evaluates them
SelectAction(obs, epsilon, coin1, coin2, rnd, best) ==
    IF obs.min_dist2 < HeuristicRadius * HeuristicRadius
       /\ coin1 < HeuristicChance
    THEN [tier |-> "heuristic",
          idx |-> HeuristicAction(obs.rel[1], obs.rel[2])]
    ELSE IF coin2 < epsilon
         THEN [tier |-> "explore", idx |-> rnd]
         ELSE [tier |-> "exploit", idx |-> best]

\* a variant whose floor holds an epsilon up but does not raise one that is
\* already below it
DecayEpsilon_FloorFromAbove(epsilon, decay, floor) ==
    IF epsilon < floor THEN (epsilon * decay) \div 1000
    ELSE Max((epsilon * decay) \div 1000, floor)

\* a variant without the floor
DecayEpsilon_NoFloor(epsilon, decay, floor) == (epsilon * decay) \div 1000

DecayEpsilon(epsilon, decay, floor) ==
    Max((epsilon * decay) \div 1000, floor)

\* a variant that charges landauer_cost in place of acting_cost
ChargeActing_Landauer(a) == [a EXCEPT !.energy = @ - a.landauer_cost]

ChargeActing(a) == [a EXCEPT !.energy = @ - a.acting_cost]

\* applyExternalForce followed by stepSimulation: one force command is
\* issued (the engine clears it after the step) and the engine leaves the
\* robot at new_pos
\* a variant that advances the physics twice per force
StepPhysics_Twice(w, idx, new_pos) ==
    [w EXCEPT !.forces = @ + 1, !.sim_steps = @ + 2, !.robot = new_pos]
StepPhysics(w, idx, new_pos) ==
    [w EXCEPT !.forces = @ + 1, !.sim_steps = @ + 1, !.robot = new_pos]

\* a variant that leaves epsilon alone when the heuristic tier acted
act_DecayUnlessHeuristic(a, w, obs, coin1, coin2, rnd, best, new_pos) ==
    LET a1 == ChargeActing(a)
        sel == SelectAction(obs, a1.epsilon, coin1, coin2, rnd, best)
        a2 == IF sel.tier = "heuristic" THEN a1
              ELSE [a1 EXCEPT !.epsilon =
                       DecayEpsilon(a1.epsilon, a1.epsilon_decay,
                                    a1.epsilon_min)]
    IN [agent |-> a2, world |-> StepPhysics(w, sel.idx, new_pos),
        action_idx |-> sel.idx, tier |-> sel.tier]
act(a, w, obs, coin1, coin2, rnd, best, new_pos) ==
    LET a1 == ChargeActing(a)
        sel == SelectAction(obs, a1.epsilon, coin1, coin2, rnd, best)
        a2 == [a1 EXCEPT !.epsilon =
                  DecayEpsilon(a1.epsilon, a1.epsilon_decay, a1.epsilon_min)]
    IN [agent |-> a2, world |-> StepPhysics(w, sel.idx, new_pos),
        action_idx |-> sel.idx, tier |-> sel.tier]

(***************************************************************************)
(* check_food_consumption                                                  *)
(***************************************************************************)
WithinRadius(rp, item) ==
    item.live /\ Dist2(rp, item.pos) < ConsumeRadius * ConsumeRadius

\* a variant without the clamp
AddEnergy_NoClamp(energy, gain, cap) == energy + gain

\* a variant that overwrites the energy with the gain
AddEnergy_Overwrite(energy, gain, cap) == Min(gain, cap)

AddEnergy(energy, gain, cap) == Min(energy + gain, cap)

\* a call during which no engine call on a food item raises
NoFaults == [lookup |-> {}, reset |-> {}]

\* the scan of lines 201-221 from item i on, k - 1 gains having been drawn.
\* faults.lookup holds the items whose getBasePositionAndOrientation (line
\* 203) raises during this call and faults.reset those whose
\* resetBasePositionAndOrientation (line 217) raises.  Both calls are inside
\* the try block: the bare except of lines 220-221 swallows the exception
\* and the scan goes on with the next item.  The gain of line 209 has been
\* added by the time line 217 raises, and it stays.  The result tells the
\* item consumed (0 for none), how many gains were added to the energy, and
\* the items the scan reached whose lookup raised.
RECURSIVE ConsumeFrom(_, _, _, _, _, _, _)
ConsumeFrom(a, w, i, k, gains, new_pos, faults) ==
    IF i > Len(w.food)
    THEN [agent |-> a, world |-> w, ate |-> FALSE, item |-> 0,
          grants |-> k - 1,
          unresolved |-> faults.lookup \cap (1..Len(w.food))]
    ELSE IF i \in faults.lookup \/ ~WithinRadius(w.robot, w.food[i])
         THEN ConsumeFrom(a, w, i + 1, k, gains, new_pos, faults)
         ELSE LET a1 == [a EXCEPT !.energy =
                            AddEnergy(@, gains[k], a.max_energy)]
              IN IF i \in faults.reset
                 THEN ConsumeFrom(a1, w, i + 1, k + 1, gains, new_pos, faults)
                 ELSE [agent |-> a1,
                       world |-> [w EXCEPT !.food[i].pos = new_pos],
                       ate |-> TRUE, item |-> i, grants |-> k,
                       unresolved |-> faults.lookup \cap (1..i)]

\* check_food_consumption: gains are the draws of np.random.uniform(15, 25)
\* in the order the call makes them, new_pos the place the consumed item is
\* moved to, faults the engine calls that raise during the call
check_food_consumption(a, w, gains, new_pos, faults) ==
    ConsumeFrom(a, w, 1, 1, gains, new_pos, faults)

(***************************************************************************)
(* calculate_shaped_reward                                                 *)
(***************************************************************************)
\* np.linalg.norm, rounded down to the coordinate unit
Norm(d2) == CHOOSE r \in 0..200 : r * r <= d2 /\ d2 < (r + 1) * (r + 1)

\* a variant that scales the shaping term to 0..100 instead of 0..1
calculate_shaped_reward_Scaled(obs, ate_food) ==
    IF ate_food THEN EatReward
    ELSE IF obs.min_dist2 = Infinity THEN -Infinity
    ELSE ((MaxDist - Norm(obs.min_dist2)) * 100000) \div MaxDist
         + ExistencePenalty
calculate_shaped_reward(obs, ate_food) ==
    IF ate_food THEN EatReward
    ELSE IF obs.min_dist2 = Infinity THEN -Infinity
    ELSE ((MaxDist - Norm(obs.min_dist2)) * 1000) \div MaxDist
         + ExistencePenalty

(***************************************************************************)
(* learn                                                                   *)
(***************************************************************************)
\* a variant that tests the energy left after the charge
CannotAfford_AfterCost(a) ==
    a.energy - a.learning_cost < a.learning_threshold

\* the early return of learn()
CannotAfford(a) == a.energy < a.learning_threshold

learn(a) ==
    IF CannotAfford(a) THEN a
    ELSE [a EXCEPT !.energy = @ - a.learning_cost, !.updates = @ + 1]

(***************************************************************************)
(* live_and_learn                                                          *)
(***************************************************************************)
\* a variant that stops one iteration short
HasNext_StopsEarly(step, max_steps) == step + 1 < max_steps

\* a variant that runs one iteration too many
HasNext_OffByOne(step, max_steps) == step <= max_steps

\* for step in range(max_steps)
HasNext(step, max_steps) == step < max_steps

\* a variant with the sign of the decay turned round
AmbientDecay_SignFlipped(a) == [a EXCEPT !.energy = @ + a.energy_decay]

\* the ambient decay of a tick
AmbientDecay(a) == [a EXCEPT !.energy = @ - a.energy_decay]

\* a variant that lets an agent with exactly no energy live
IsDepleted_Strict(a) == a.energy < 0

\* the death condition
\* a variant that never finds the agent depleted
IsDepleted_Never(a) == FALSE
IsDepleted(a) == a.energy <= 0

\* a variant that also sets the flag at the threshold itself
CanLearn_Inclusive(a) == a.energy >= a.learning_threshold

\* a variant with the comparison turned round
CanLearn_Inverted(a) == a.energy < a.learning_threshold

\* the flag the loop computes before calling learn()
CanLearn(a) == a.energy > a.learning_threshold

\* a variant that books the learning cost in every record
HistoryRecord_AlwaysLearning(step, a, w, ate_food, can_learn) ==
    [step |-> step, energy |-> a.energy, ate |-> ate_food,
     can_learn |-> can_learn, position |-> w.robot,
     total_computation_cost |->
         a.sensing_cost + a.acting_cost + a.learning_cost]

\* a variant that numbers the records from 1
HistoryRecord_OneBased(step, a, w, ate_food, can_learn) ==
    [step |-> step + 1, energy |-> a.energy, ate |-> ate_food,
     can_learn |-> can_learn, position |-> w.robot,
     total_computation_cost |->
         a.sensing_cost + a.acting_cost
         + (IF can_learn THEN a.learning_cost ELSE 0)]
HistoryRecord(step, a, w, ate_food, can_learn) ==
    [step |-> step, energy |-> a.energy, ate |-> ate_food,
     can_learn |-> can_learn, position |-> w.robot,
     total_computation_cost |->
         a.sensing_cost + a.acting_cost
         + (IF can_learn THEN a.learning_cost ELSE 0)]

\* a variant that counts the ticks from 1 in step_count
Decayed_CountsFromOne(a, step) ==
    AmbientDecay([a EXCEPT !.step_count = step + 1])

\* a variant that tests the death condition without the decay
Decayed_NoDecay(a, step) == [a EXCEPT !.step_count = step]

\* a variant that leaves step_count alone
Decayed_StaleStep(a, step) == AmbientDecay(a)

\* a variant that has already paid for sensing when depletion is tested
Decayed_WithSensing(a, step) ==
    [a EXCEPT !.step_count = step,
              !.energy = @ - a.energy_decay - a.sensing_cost]

\* the agent at the top of the loop body: step_count set, energy decayed
Decayed(a, step) == AmbientDecay([a EXCEPT !.step_count = step])

Init ==
    /\ agent \in {NewAgent(s) : s \in Settings}
    /\ world \in {NewWorld(l) : l \in FoodLayouts}
    /\ loop = NewLoop
    /\ audit = NewAudit(agent)

\* live_and_learn(max_steps) is called on the fresh instance
Call ==
    /\ loop.pc = "new"
    /\ \E n \in StepBudgets :
          loop' = [loop EXCEPT !.pc = "for", !.max_steps = n, !.step = 0]
    /\ UNCHANGED <<agent, world, audit>>

\* range(max_steps) is exhausted: the loop ends without a break
Exhaust ==
    /\ loop.pc = "for"
    /\ ~HasNext(loop.step, loop.max_steps)
    /\ loop' = [loop EXCEPT !.pc = "done", !.status = "COMPLETED"]
    /\ UNCHANGED <<agent, world, audit>>

\* decay, then the death condition holds: break
TickDie ==
    /\ loop.pc = "for"
    /\ HasNext(loop.step, loop.max_steps)
    /\ IsDepleted(Decayed(agent, loop.step))
    /\ agent' = Decayed(agent, loop.step)
    /\ loop' = [loop EXCEPT !.pc = "done", !.status = "DEAD"]
    /\ UNCHANGED <<world, audit>>

\* decay, and the tick goes on
TickLive ==
    /\ loop.pc = "for"
    /\ HasNext(loop.step, loop.max_steps)
    /\ ~IsDepleted(Decayed(agent, loop.step))
    /\ agent' = Decayed(agent, loop.step)
    /\ loop' = [loop EXCEPT !.pc = "sense",
                            !.account = [NoAccount EXCEPT
                                            !.start = agent.energy]]
    /\ UNCHANGED <<world, audit>>

Sense ==
    /\ loop.pc = "sense"
    /\ LET r == sense(agent, world) IN
          /\ agent' = r.agent
          /\ loop' = [loop EXCEPT !.pc = "act", !.obs = r.obs]
    /\ UNCHANGED <<world, audit>>

Act ==
    /\ loop.pc = "act"
    /\ \E coin1 \in CoinDraws, coin2 \in CoinDraws,
          rnd \in 0..(NumActions - 1), best \in 0..(NumActions - 1),
          new_pos \in RobotCells :
          LET r == act(agent, world, loop.obs, coin1, coin2, rnd, best,
                       new_pos) IN
             /\ agent' = r.agent
             /\ world' = r.world
             /\ loop' = [loop EXCEPT !.pc = "eat",
                                     !.action_idx = r.action_idx,
                                     !.tier = r.tier,
                                     !.account.epsilon = agent.epsilon]
    /\ UNCHANGED audit

\* the food check of a tick, on an engine none of whose calls on a food
\* item raises (SpecFault has the calls that raise)
Eat ==
    /\ loop.pc = "eat"
    /\ \E gain \in GainDraws, new_pos \in SpawnCells :
          \E r \in {check_food_consumption(agent, world, <<gain>>, new_pos,
                                            NoFaults)} :
             /\ agent' = r.agent
             /\ world' = r.world
             /\ loop' = [loop EXCEPT
                            !.pc = "learn", !.ate_food = r.ate,
                            !.account.gained = r.agent.energy - agent.energy,
                            !.account.near2 =
                                NearestFood(world.robot,
                                            world.food).min_dist2,
                            !.account.item = r.item,
                            !.account.grants = r.grants,
                            !.account.unresolved = r.unresolved]
    /\ UNCHANGED audit

\* reward, the can_learn flag, and learn() when the flag is set
LearnGo ==
    /\ loop.pc = "learn"
    /\ CanLearn(agent)
    /\ agent' = learn(agent)
    /\ loop' = [loop EXCEPT
                   !.pc = "record", !.can_learn = TRUE,
                   !.reward = calculate_shaped_reward(loop.obs, loop.ate_food),
                   !.account.charged = agent.energy - learn(agent).energy,
                   !.account.updated = learn(agent).updates - agent.updates]
    /\ UNCHANGED <<world, audit>>

\* a variant that computes the reward from an observation taken after the
\* physics step
LearnSkip_RewardAfterStep ==
    /\ loop.pc = "learn"
    /\ ~CanLearn(agent)
    /\ loop' = [loop EXCEPT
                   !.pc = "record", !.can_learn = FALSE,
                   !.reward = calculate_shaped_reward(
                                  Observation(agent, world), loop.ate_food)]
    /\ UNCHANGED <<agent, world, audit>>

\* reward and the can_learn flag, learn() not being called
LearnSkip ==
    /\ loop.pc = "learn"
    /\ ~CanLearn(agent)
    /\ loop' = [loop EXCEPT
                   !.pc = "record", !.can_learn = FALSE,
                   !.reward = calculate_shaped_reward(loop.obs, loop.ate_food)]
    /\ UNCHANGED <<agent, world, audit>>

\* the record is appended and the next iteration begins
Record ==
    /\ loop.pc = "record"
    /\ agent' = [agent EXCEPT !.history =
                    Append(@, HistoryRecord(loop.step, agent, world,
                                            loop.ate_food, loop.can_learn))]
    /\ audit' = [audit EXCEPT !.ticks = Append(@, loop.account)]
    /\ loop' = [loop EXCEPT !.pc = "for", !.step = @ + 1, !.obs = NoObs,
                            !.action_idx = 0, !.tier = "none",
                            !.ate_food = FALSE, !.reward = 0,
                            !.can_learn = FALSE, !.account = NoAccount]
    /\ UNCHANGED world

Next ==
    \/ Call
    \/ Exhaust
    \/ TickDie
    \/ TickLive
    \/ Sense
    \/ Act
    \/ Eat
    \/ LearnGo
    \/ LearnSkip
    \/ Record

Spec == Init /\ [][Next]_vars

\* the loop is sequential code: it always takes its next step
LiveSpec == Spec /\ WF_vars(Next)

(***************************************************************************)
(* live_and_learn called again on an instance whose episode has ended: the *)
(* method has no guard, so the loop runs once more from the energy, the    *)
(* world and the history the instance was left with.                       *)
(***************************************************************************)
\* settings of the instances that are called again: one that completes its
\* episodes and one that dies in its third tick
RestartSettings ==
    {DefaultSettings, [DefaultSettings EXCEPT !.energy = 270]}

\* step budgets of the later calls
RestartBudgets == {0, 1}

InitRestart ==
    /\ agent \in {NewAgent(s) : s \in RestartSettings}
    /\ world \in {NewWorld(l) : l \in FoodLayouts}
    /\ loop = NewLoop
    /\ audit = NewAudit(agent)

\* live_and_learn(max_steps) is called on the instance after an episode
CallAgain ==
    /\ loop.pc = "done"
    /\ loop.calls < MaxRestarts
    /\ \E n \in RestartBudgets :
          loop' = [loop EXCEPT !.pc = "for", !.max_steps = n, !.step = 0,
                               !.status = "ALIVE", !.calls = @ + 1,
                               !.base = Len(agent.history)]
    /\ UNCHANGED <<agent, world, audit>>

NextRestart ==
    \/ Next
    \/ CallAgain

SpecRestart == InitRestart /\ [][NextRestart]_vars

(***************************************************************************)
(* The methods called directly, outside live_and_learn: a client holds the *)
(* instance and calls sense, act, check_food_consumption, learn,           *)
(* spawn_food, setup_environment and cleanup in any order.  Once cleanup   *)
(* has disconnected the physics client, every pybullet call raises: a      *)
(* method then keeps what it did before its first pybullet call, and       *)
(* loop.last tells that the call raised.                                   *)
(***************************************************************************)
\* energies the instance holds when the client starts calling
ApiEnergies == {20, 50000, 50001, 149000}

\* the default settings at each of these energies, and the default settings
\* with exploration switched off
ApiSettings ==
    {[DefaultSettings EXCEPT !.energy = e] : e \in ApiEnergies}
    \cup {[DefaultSettings EXCEPT !.epsilon = 0]}

\* a world none of whose food items resolves any more
AllRemoved(w) ==
    [w EXCEPT !.food = [i \in 1..Len(w.food) |->
                           [w.food[i] EXCEPT !.live = FALSE]]]

\* the worlds the client finds: two items within reach, the first in scan
\* order not the nearest; two items both nearest, at distance 5.0; an item
\* at distance 0.8 exactly with a removed item at the robot's own position;
\* a removed item within reach ahead of one that resolves; no item that
\* resolves
ApiWorlds ==
    {NewWorld(Layout(<<5, 0>>, <<0, 0>>)),
     NewWorld(Layout(<<30, 40>>, <<40, 30>>)),
     [NewWorld(Layout(<<8, 0>>, <<0, 0>>)) EXCEPT !.food[2].live = FALSE],
     [NewWorld(Layout(<<0, 0>>, <<5, 0>>)) EXCEPT !.food[1].live = FALSE],
     AllRemoved(NewWorld(Layout(<<5, 0>>, <<0, 0>>)))}

\* the default n of spawn_food
DefaultSpawn == 12

\* the n a client passes to spawn_food
SpawnCounts == {DefaultSpawn}

\* positions np.random.uniform(-5, 5) can place the first body of a
\* spawn_food call at: nearer to the robot's start than any item of ApiWorlds
SpawnedCells ==
    {c \in {<<1, 0>>} :
        \A k \in 1..2 : SpawnLow <= c[k] /\ c[k] <= SpawnHigh}

\* food placements a setup_environment call can draw
SetupLayouts == {Layout(<<-20, -20>>, <<10, 10>>)}

InitAPI ==
    /\ agent \in {NewAgent(s) : s \in ApiSettings}
    /\ world \in ApiWorlds
    /\ loop = [NewLoop EXCEPT !.pc = "api"]
    /\ audit = NewAudit(agent)

CallSense ==
    /\ loop.pc = "api"
    /\ loop.calls < MaxCalls
    /\ world.up
    /\ LET r == sense(agent, world) IN
          /\ agent' = r.agent
          /\ loop' = [loop EXCEPT !.calls = @ + 1, !.last = "sense",
                                  !.obs = r.obs,
                                  !.account = [NoAccount EXCEPT
                                                  !.start = agent.energy]]
    /\ UNCHANGED <<world, audit>>

\* sense() after cleanup(): the charge of line 110 is made, line 113 raises
\* and no observation is returned
CallSenseDown ==
    /\ loop.pc = "api"
    /\ loop.calls < MaxCalls
    /\ ~world.up
    /\ agent' = ChargeSensing(agent)
    /\ loop' = [loop EXCEPT !.calls = @ + 1, !.last = "sense raised",
                            !.account = [NoAccount EXCEPT
                                            !.start = agent.energy]]
    /\ UNCHANGED <<world, audit>>

\* act(obs) with the observation of the latest sense()
CallAct ==
    /\ loop.pc = "api"
    /\ loop.calls < MaxCalls
    /\ world.up
    /\ \E coin1 \in CoinDraws, coin2 \in CoinDraws,
          rnd \in 0..(NumActions - 1), best \in 0..(NumActions - 1),
          new_pos \in RobotCells :
          LET r == act(agent, world, loop.obs, coin1, coin2, rnd, best,
                       new_pos) IN
             /\ agent' = r.agent
             /\ world' = r.world
             /\ loop' = [loop EXCEPT !.calls = @ + 1, !.last = "act",
                                     !.action_idx = r.action_idx,
                                     !.tier = r.tier,
                                     !.account = [NoAccount EXCEPT
                                         !.start = agent.energy,
                                         !.epsilon = agent.epsilon]]
    /\ UNCHANGED audit

\* act(obs) after cleanup(): the charge of line 146 and the epsilon update
\* of line 181 are made, line 184 raises: no force, no physics step and no
\* action returned
CallActDown ==
    /\ loop.pc = "api"
    /\ loop.calls < MaxCalls
    /\ ~world.up
    /\ agent' = [ChargeActing(agent) EXCEPT
                    !.epsilon = DecayEpsilon(agent.epsilon,
                                             agent.epsilon_decay,
                                             agent.epsilon_min)]
    /\ loop' = [loop EXCEPT !.calls = @ + 1, !.last = "act raised",
                            !.account = [NoAccount EXCEPT
                                            !.start = agent.energy,
                                            !.epsilon = agent.epsilon]]
    /\ UNCHANGED <<world, audit>>

CallEat ==
    /\ loop.pc = "api"
    /\ loop.calls < MaxCalls
    /\ world.up
    /\ \E gain \in GainDraws, new_pos \in SpawnCells :
          \E r \in {check_food_consumption(agent, world, <<gain>>, new_pos,
                                            NoFaults)} :
             /\ agent' = r.agent
             /\ world' = r.world
             /\ loop' = [loop EXCEPT !.calls = @ + 1, !.last = "eat",
                                     !.ate_food = r.ate,
                                     !.account = [NoAccount EXCEPT
                                         !.start = agent.energy,
                                         !.gained =
                                             r.agent.energy - agent.energy,
                                         !.near2 =
                                             NearestFood(world.robot,
                                                 world.food).min_dist2,
                                         !.item = r.item,
                                         !.grants = r.grants,
                                         !.unresolved = r.unresolved]]
    /\ UNCHANGED audit

CallLearn ==
    /\ loop.pc = "api"
    /\ loop.calls < MaxCalls
    /\ agent' = learn(agent)
    /\ loop' = [loop EXCEPT
                   !.calls = @ + 1, !.last = "learn",
                   !.account = [NoAccount EXCEPT
                       !.start = agent.energy,
                       !.charged = agent.energy - learn(agent).energy,
                       !.updated = learn(agent).updates - agent.updates]]
    /\ UNCHANGED <<world, audit>>

\* the n bodies a spawn_food(n) call creates: the first where it was drawn,
\* the others along the far edge
Spawned(first, n) ==
    [k \in 1..n |-> FoodItem(IF k = 1 THEN first ELSE <<-50, 50 - k>>)]

\* spawn_food(n): n bodies are created and their ids appended to
\* food_positions
spawn_food(w, first, n) == [w EXCEPT !.food = @ \o Spawned(first, n)]

\* setup_environment(): a new robot body at the origin replaces robot_id,
\* food_positions is emptied and spawn_food(16) fills it; the physics
\* client and its step count stay
setup_environment(w, layout) ==
    [w EXCEPT !.robot = NewWorld(layout).robot,
              !.food = NewWorld(layout).food]

\* cleanup(): the physics client is disconnected
cleanup(w) == [w EXCEPT !.up = FALSE]

CallSpawnFood ==
    /\ loop.pc = "api"
    /\ loop.calls < MaxCalls
    /\ world.up
    /\ \E first \in SpawnedCells, n \in SpawnCounts :
          world' = spawn_food(world, first, n)
    /\ loop' = [loop EXCEPT !.calls = @ + 1, !.last = "spawn",
                            !.account = [NoAccount EXCEPT
                                            !.start = agent.energy]]
    /\ UNCHANGED <<agent, audit>>

CallSetup ==
    /\ loop.pc = "api"
    /\ loop.calls < MaxCalls
    /\ world.up
    /\ \E l \in SetupLayouts : world' = setup_environment(world, l)
    /\ loop' = [loop EXCEPT !.calls = @ + 1, !.last = "setup",
                            !.account = [NoAccount EXCEPT
                                            !.start = agent.energy]]
    /\ UNCHANGED <<agent, audit>>

CallCleanup ==
    /\ loop.pc = "api"
    /\ loop.calls < MaxCalls
    /\ world.up
    /\ world' = cleanup(world)
    /\ loop' = [loop EXCEPT !.calls = @ + 1, !.last = "cleanup",
                            !.account = [NoAccount EXCEPT
                                            !.start = agent.energy]]
    /\ UNCHANGED <<agent, audit>>

\* check_food_consumption, spawn_food, setup_environment or cleanup after
\* cleanup(): the first pybullet call (lines 199, 95, 70, 367) raises
\* before the instance is changed
CallRaises ==
    /\ loop.pc = "api"
    /\ loop.calls < MaxCalls
    /\ ~world.up
    /\ \E m \in {"eat", "spawn", "setup", "cleanup"} :
          loop' = [loop EXCEPT !.calls = @ + 1, !.last = m \o " raised",
                               !.account = [NoAccount EXCEPT
                                               !.start = agent.energy]]
    /\ UNCHANGED <<agent, world, audit>>

NextAPI ==
    \/ CallSense
    \/ CallSenseDown
    \/ CallAct
    \/ CallActDown
    \/ CallEat
    \/ CallLearn
    \/ CallSpawnFood
    \/ CallSetup
    \/ CallCleanup
    \/ CallRaises

SpecAPI == InitAPI /\ [][NextAPI]_vars

(***************************************************************************)
(* Two instances, each in its own copy of the same world: a pair that     *)
(* differs in landauer_cost only, or the rich and the poor agent as        *)
(* src/test_emergence.py sets them up (energy_decay, landauer_cost and     *)
(* learning_threshold differ).  The same method is called on both, with    *)
(* the same random draws and the same physics outcome.  agent, world,      *)
(* loop.obs and loop.account.start hold one entry per instance.            *)
(***************************************************************************)
\* the landauer_cost of the cheap and of the dear instance
LandauerPair == <<5, 15>>

\* energies both instances start with
PairEnergies == {20, 50000, 50001, 100000}

\* the rich and the poor agent of src/test_emergence.py
RichSettings ==
    [DefaultSettings EXCEPT !.energy_decay = 50, !.landauer_cost = 5,
                            !.learning_threshold = 25000]

PoorSettings ==
    [DefaultSettings EXCEPT !.energy_decay = 120, !.landauer_cost = 15,
                            !.learning_threshold = 60000]

\* energies the rich and the poor agent are found with: the constructor's,
\* and one between their learning thresholds
RichPoorEnergies == {50000, 100000}

\* the pairs of settings
PairSettings ==
    {[k \in 1..2 |-> [DefaultSettings EXCEPT
                         !.energy = e, !.landauer_cost = LandauerPair[k]]] :
        e \in PairEnergies}
    \cup {<<[RichSettings EXCEPT !.energy = e],
            [PoorSettings EXCEPT !.energy = e]>> : e \in RichPoorEnergies}

InitPair ==
    /\ \E s \in PairSettings : agent = [k \in 1..2 |-> NewAgent(s[k])]
    /\ \E l \in FoodLayouts : world = [k \in 1..2 |-> NewWorld(l)]
    /\ loop = [NewLoop EXCEPT !.pc = "pair", !.obs = <<NoObs, NoObs>>,
                              !.account.start = <<0, 0>>]
    /\ audit = NewAudit(agent[1])

\* the energies of both instances before the call
BothEnergies == [k \in 1..2 |-> agent[k].energy]

PairSense ==
    /\ loop.pc = "pair"
    /\ loop.calls < MaxCalls
    /\ agent' = [k \in 1..2 |-> sense(agent[k], world[k]).agent]
    /\ loop' = [loop EXCEPT
                   !.calls = @ + 1, !.last = "sense",
                   !.obs = [k \in 1..2 |-> sense(agent[k], world[k]).obs],
                   !.account.start = BothEnergies]
    /\ UNCHANGED <<world, audit>>

PairAct ==
    /\ loop.pc = "pair"
    /\ loop.calls < MaxCalls
    /\ \E coin1 \in CoinDraws, coin2 \in CoinDraws,
          rnd \in 0..(NumActions - 1), best \in 0..(NumActions - 1),
          new_pos \in RobotCells :
          LET r == [k \in 1..2 |->
                       act(agent[k], world[k], loop.obs[k], coin1, coin2,
                           rnd, best, new_pos)] IN
             /\ agent' = [k \in 1..2 |-> r[k].agent]
             /\ world' = [k \in 1..2 |-> r[k].world]
             /\ loop' = [loop EXCEPT !.calls = @ + 1, !.last = "act",
                                     !.action_idx = r[1].action_idx,
                                     !.tier = r[1].tier,
                                     !.account.start = BothEnergies]
    /\ UNCHANGED audit

PairEat ==
    /\ loop.pc = "pair"
    /\ loop.calls < MaxCalls
    /\ \E gain \in GainDraws, new_pos \in SpawnCells :
          LET r == [k \in 1..2 |->
                       check_food_consumption(agent[k], world[k], <<gain>>,
                                              new_pos, NoFaults)] IN
             /\ agent' = [k \in 1..2 |-> r[k].agent]
             /\ world' = [k \in 1..2 |-> r[k].world]
             /\ loop' = [loop EXCEPT !.calls = @ + 1, !.last = "eat",
                                     !.ate_food = r[1].ate,
                                     !.account.start = BothEnergies]
    /\ UNCHANGED audit

PairLearn ==
    /\ loop.pc = "pair"
    /\ loop.calls < MaxCalls
    /\ agent' = [k \in 1..2 |-> learn(agent[k])]
    /\ loop' = [loop EXCEPT !.calls = @ + 1, !.last = "learn",
                            !.account.start = BothEnergies]
    /\ UNCHANGED <<world, audit>>

NextPair ==
    \/ PairSense
    \/ PairAct
    \/ PairEat
    \/ PairLearn

SpecPair == InitPair /\ [][NextPair]_vars

(***************************************************************************)
(* Two instances alive in one process.  Each __init__ opens a client of    *)
(* its own and keeps its id in self.client, but every pybullet call of the *)
(* class is made without a physicsClientId, so it goes to the process's    *)
(* default client, the one the first instance opened; and every random     *)
(* number comes from the module-level generator of np.random.  world is    *)
(* the world of that default client, holding the bodies of both instances, *)
(* and world.draws is the position in the process-wide random stream.      *)
(***************************************************************************)
\* the world of the default client after both constructors have run
NewSharedWorld(layout1, layout2) ==
    [robot |-> <<(<<0, 0>>), (<<0, 0>>)>>,
     food |-> <<NewWorld(layout1).food, NewWorld(layout2).food>>,
     sim_steps |-> 0, forces |-> 0, draws |-> 0, up |-> TRUE]

\* the bodies instance k holds ids of
View(w, k) ==
    [robot |-> w.robot[k], food |-> w.food[k],
     sim_steps |-> w.sim_steps, forces |-> w.forces]

\* the other instance
Other(k) == 3 - k

\* numbers act() takes from np.random: the heuristic coin if the food is
\* near, the exploration coin if the heuristic was not taken, the random
\* action if exploring
DrawsOfAct(obs, tier) ==
    (IF obs.min_dist2 < HeuristicRadius * HeuristicRadius THEN 1 ELSE 0)
    + (IF tier = "heuristic" THEN 0 ELSE 1)
    + (IF tier = "explore" THEN 1 ELSE 0)

\* numbers check_food_consumption takes: the gain and two coordinates
DrawsOfEat(ate) == IF ate THEN 3 ELSE 0

InitTwo ==
    /\ agent = [k \in 1..2 |-> NewAgent(DefaultSettings)]
    /\ \E l1 \in FoodLayouts, l2 \in FoodLayouts :
          world = NewSharedWorld(l1, l2)
    /\ loop = [pc |-> "two", calls |-> 0, actor |-> 0, last |-> "none",
               obs |-> <<NoObs, NoObs>>, closed |-> <<FALSE, FALSE>>,
               raised |-> FALSE]
    /\ audit = NewAudit(agent[1])

\* a method of either instance may be called, cleaned up or not: its
\* pybullet calls go to the default client whatever self.client is, and
\* raise when that client is disconnected
Callable(k) ==
    /\ loop.pc = "two"
    /\ loop.calls < MaxCalls

\* sense() of instance k; with the default client down the charge of line
\* 110 is made and line 113 raises
TwoSense(k) ==
    /\ Callable(k)
    /\ LET r == sense(agent[k], View(world, k)) IN
          /\ agent' = [agent EXCEPT ![k] = r.agent]
          /\ loop' = [loop EXCEPT
                         !.calls = @ + 1, !.actor = k, !.last = "sense",
                         !.obs[k] = IF world.up THEN r.obs ELSE @,
                         !.raised = ~world.up]
    /\ UNCHANGED <<world, audit>>

\* act(obs) of instance k: the force goes to its own robot, stepSimulation
\* advances every body of the default client's world; with the default
\* client down the charge, the draws and the epsilon update of lines
\* 146-181 are made and line 184 raises
TwoAct(k) ==
    /\ Callable(k)
    /\ \E coin1 \in CoinDraws, coin2 \in CoinDraws,
          rnd \in 0..(NumActions - 1), best \in 0..(NumActions - 1),
          new_pos \in RobotCells, other_pos \in RobotCells :
          LET r == act(agent[k], View(world, k), loop.obs[k], coin1, coin2,
                       rnd, best, new_pos) IN
             /\ agent' = [agent EXCEPT ![k] = r.agent]
             /\ world' =
                   IF world.up
                   THEN [world EXCEPT
                            !.robot[k] = r.world.robot,
                            !.robot[Other(k)] = other_pos,
                            !.sim_steps = r.world.sim_steps,
                            !.forces = r.world.forces,
                            !.draws = @ + DrawsOfAct(loop.obs[k], r.tier)]
                   ELSE [world EXCEPT
                            !.draws = @ + DrawsOfAct(loop.obs[k], r.tier)]
             /\ loop' = [loop EXCEPT !.calls = @ + 1, !.actor = k,
                                     !.last = "act", !.raised = ~world.up]
    /\ UNCHANGED audit

\* check_food_consumption of instance k; with the default client down line
\* 199, outside the try block, raises before anything is changed
TwoEat(k) ==
    /\ Callable(k)
    /\ \E gain \in GainDraws, new_pos \in SpawnCells :
          LET r == check_food_consumption(agent[k], View(world, k),
                                          <<gain>>, new_pos, NoFaults) IN
             /\ agent' = IF world.up THEN [agent EXCEPT ![k] = r.agent]
                         ELSE agent
             /\ world' = IF world.up
                         THEN [world EXCEPT !.food[k] = r.world.food,
                                            !.draws = @ + DrawsOfEat(r.ate)]
                         ELSE world
             /\ loop' = [loop EXCEPT !.calls = @ + 1, !.actor = k,
                                     !.last = "eat", !.raised = ~world.up]
    /\ UNCHANGED audit

\* cleanup() of instance k disconnects the client it opened; the first
\* instance's client is the default one every call goes to.  A second
\* cleanup() of the same instance raises, its client being gone.
TwoCleanup(k) ==
    /\ Callable(k)
    /\ world' = [world EXCEPT
                    !.up = IF k = 1 /\ ~loop.closed[k] THEN FALSE ELSE @]
    /\ loop' = [loop EXCEPT !.calls = @ + 1, !.actor = k,
                            !.last = "cleanup", !.closed[k] = TRUE,
                            !.raised = loop.closed[k]]
    /\ UNCHANGED <<agent, audit>>

NextTwo ==
    \E k \in 1..2 :
       \/ TwoSense(k)
       \/ TwoAct(k)
       \/ TwoEat(k)
       \/ TwoCleanup(k)

SpecTwo == InitTwo /\ [][NextTwo]_vars

(***************************************************************************)
(* act(obs) and calculate_shaped_reward(obs, ate_food) called on a given   *)
(* observation: the relative offset of the nearest food is drawn from a    *)
(* grid that has offsets on both sides of the heuristic radius and of      *)
(* max_dist, equal and unequal |dx| and |dy|, and the observation sense()  *)
(* builds when no food item resolves.  One call is made on each.          *)
(***************************************************************************)
\* offsets of the nearest food from the robot, per axis
Offsets == {-130, -40, -30, -3, 0, 3, 30, 40, 130}

\* the observation of a robot at the origin with the nearest food at rel
ObsAt(a, rel) ==
    [pos |-> <<0, 0>>, rel |-> rel, min_dist2 |-> Dist2(<<0, 0>>, rel),
     norm_energy |-> <<a.energy, a.max_energy>>]

\* the observation when no food item resolves
ObsNoFood(a) ==
    [pos |-> <<0, 0>>, rel |-> <<0, 0>>, min_dist2 |-> Infinity,
     norm_energy |-> <<a.energy, a.max_energy>>]

InitObs ==
    /\ agent = NewAgent(DefaultSettings)
    /\ world = NewWorld(Layout(<<50, -50>>, <<-50, 50>>))
    /\ \E o \in {ObsAt(agent, <<dx, dy>>) : dx \in Offsets, dy \in Offsets}
                \cup {ObsNoFood(agent)} :
          loop = [NewLoop EXCEPT !.pc = "obs", !.obs = o]
    /\ audit = NewAudit(agent)

\* act(obs) on the given observation
ObsAct ==
    /\ loop.pc = "obs"
    /\ loop.last = "none"
    /\ \E coin1 \in CoinDraws, coin2 \in CoinDraws,
          rnd \in 0..(NumActions - 1), best \in 0..(NumActions - 1),
          new_pos \in RobotCells :
          LET r == act(agent, world, loop.obs, coin1, coin2, rnd, best,
                       new_pos) IN
             /\ agent' = r.agent
             /\ world' = r.world
             /\ loop' = [loop EXCEPT !.calls = @ + 1, !.last = "act",
                                     !.action_idx = r.action_idx,
                                     !.tier = r.tier,
                                     !.account = [NoAccount EXCEPT
                                         !.start = agent.energy,
                                         !.epsilon = agent.epsilon]]
    /\ UNCHANGED audit

\* calculate_shaped_reward(obs, ate_food) on the given observation
ObsReward ==
    /\ loop.pc = "obs"
    /\ loop.last = "none"
    /\ \E ate \in BOOLEAN :
          loop' = [loop EXCEPT !.calls = @ + 1, !.last = "reward",
                               !.ate_food = ate,
                               !.reward =
                                   calculate_shaped_reward(loop.obs, ate),
                               !.account = [NoAccount EXCEPT
                                               !.start = agent.energy]]
    /\ UNCHANGED <<agent, world, audit>>

NextObs ==
    \/ ObsAct
    \/ ObsReward

SpecObs == InitObs /\ [][NextObs]_vars

(***************************************************************************)
(* get_survival_stats called on an instance whose episode has left a       *)
(* history: the history is drawn, from the empty one (an episode that died *)
(* on its first tick, or was given max_steps = 0) up to MaxHistory         *)
(* records.  A dictionary is a function from its keys.                     *)
(***************************************************************************)
\* what a tick can leave in a record: depleted; learned; ate and learned;
\* ate below the learning threshold
RecordKinds ==
    {[energy |-> -30, ate |-> FALSE, can_learn |-> FALSE],
     [energy |-> 60000, ate |-> FALSE, can_learn |-> TRUE],
     [energy |-> 65000, ate |-> TRUE, can_learn |-> TRUE],
     [energy |-> 24850, ate |-> TRUE, can_learn |-> FALSE]}

\* the histories of n records
HistoriesOf(n) ==
    {[i \in 1..n |->
         [step |-> i - 1, energy |-> kinds[i].energy, ate |-> kinds[i].ate,
          can_learn |-> kinds[i].can_learn, position |-> <<0, 0>>,
          total_computation_cost |->
              DefaultSettings.sensing_cost + DefaultSettings.acting_cost
              + (IF kinds[i].can_learn
                 THEN DefaultSettings.learning_cost ELSE 0)]] :
        kinds \in [1..n -> RecordKinds]}

\* sum([h[key] for h in history]) for a boolean key, True counting as 1
RECURSIVE SumFlags(_, _)
SumFlags(flags, i) ==
    IF i > Len(flags) THEN 0
    ELSE (IF flags[i] THEN 1 ELSE 0) + SumFlags(flags, i + 1)

\* the sum np.mean divides by the length
RECURSIVE SumEnergy(_, _)
SumEnergy(history, i) ==
    IF i > Len(history) THEN 0
    ELSE history[i].energy + SumEnergy(history, i + 1)

\* a variant that relates the food to the learning episodes
get_survival_stats_PerLearning(history) ==
    IF history = <<>> THEN <<>>
    ELSE LET total_food ==
                 SumFlags([i \in 1..Len(history) |-> history[i].ate], 1)
             learning_episodes ==
                 SumFlags([i \in 1..Len(history) |-> history[i].can_learn],
                          1)
         IN [survival_time |-> Len(history),
             total_food_consumed |-> total_food,
             learning_episodes |-> learning_episodes,
             average_energy |-> <<SumEnergy(history, 1), Len(history)>>,
             learning_ratio |-> <<learning_episodes, Len(history)>>,
             feeding_efficiency |-> <<total_food, learning_episodes>>]

\* a quotient is kept as the pair (numerator, denominator)
get_survival_stats(history) ==
    IF history = <<>> THEN <<>>
    ELSE LET total_food ==
                 SumFlags([i \in 1..Len(history) |-> history[i].ate], 1)
             learning_episodes ==
                 SumFlags([i \in 1..Len(history) |-> history[i].can_learn],
                          1)
         IN [survival_time |-> Len(history),
             total_food_consumed |-> total_food,
             learning_episodes |-> learning_episodes,
             average_energy |-> <<SumEnergy(history, 1), Len(history)>>,
             learning_ratio |-> <<learning_episodes, Len(history)>>,
             feeding_efficiency |-> <<total_food, Len(history)>>]

InitStats ==
    /\ \E n \in 0..MaxHistory : \E h \in HistoriesOf(n) :
          agent = [NewAgent(DefaultSettings) EXCEPT !.history = h]
    /\ world = NewWorld(Layout(<<50, -50>>, <<-50, 50>>))
    /\ loop = [pc |-> "ended", last |-> "none", stats |-> <<>>]
    /\ audit = NewAudit(agent)

GetStats ==
    /\ loop.pc = "ended"
    /\ loop.last = "none"
    /\ loop' = [loop EXCEPT !.last = "stats",
                            !.stats = get_survival_stats(agent.history)]
    /\ UNCHANGED <<agent, world, audit>>

NextStats == GetStats

SpecStats == InitStats /\ [][NextStats]_vars

(***************************************************************************)
(* An episode in which the engine's calls inside check_food_consumption    *)
(* can raise.  The specifications above take every call on a body that     *)
(* resolves to succeed.  Here the lookup of an item (line 203) or its      *)
(* relocation (line 217) may raise within the try block: the bare except   *)
(* of lines 220-221 swallows the exception and the scan goes on with the   *)
(* next item.  The gain of line 209 has been granted by the time line 217  *)
(* raises.                                                                 *)
(***************************************************************************)
\* the items whose calls can raise
FaultyItems == {1}

\* which lookups and which relocations raise during one call
Faults ==
    {[lookup |-> l, reset |-> r] :
        l \in SUBSET FaultyItems, r \in SUBSET FaultyItems}

\* the draws of np.random.uniform(15, 25) of one call, in the order they are
\* made: one for each relocation that raises and one for the item consumed
GainSequences == [1..(Cardinality(FaultyItems) + 1) -> GainDraws]

\* instances that die at the first check, that cannot learn, that learn
FaultSettings ==
    {[DefaultSettings EXCEPT !.energy = e] : e \in {100, 10000, 100000}}

\* one item within reach of the robot's start, or two
FaultLayouts ==
    {Layout(<<5, 0>>, <<-50, 50>>), Layout(<<5, 0>>, <<0, 5>>)}

\* max_steps arguments of these episodes
FaultBudgets == {1, 2}

InitFault ==
    /\ agent \in {NewAgent(s) : s \in FaultSettings}
    /\ world \in {NewWorld(l) : l \in FaultLayouts}
    /\ loop = NewLoop
    /\ audit = NewAudit(agent)

CallFault ==
    /\ loop.pc = "new"
    /\ \E n \in FaultBudgets :
          loop' = [loop EXCEPT !.pc = "for", !.max_steps = n, !.step = 0]
    /\ UNCHANGED <<agent, world, audit>>

EatFault ==
    /\ loop.pc = "eat"
    /\ \E gains \in GainSequences, new_pos \in SpawnCells, faults \in Faults :
          \E r \in {check_food_consumption(agent, world, gains, new_pos,
                                            faults)} :
             /\ agent' = r.agent
             /\ world' = r.world
             /\ loop' = [loop EXCEPT
                            !.pc = "learn", !.ate_food = r.ate,
                            !.account.gained = r.agent.energy - agent.energy,
                            !.account.near2 =
                                NearestFood(world.robot,
                                            world.food).min_dist2,
                            !.account.item = r.item,
                            !.account.grants = r.grants,
                            !.account.unresolved = r.unresolved]
    /\ UNCHANGED audit

NextFault ==
    \/ CallFault
    \/ Exhaust
    \/ TickDie
    \/ TickLive
    \/ Sense
    \/ Act
    \/ EatFault
    \/ LearnGo
    \/ LearnSkip
    \/ Record

SpecFault == InitFault /\ [][NextFault]_vars

(***************************************************************************)
(* Properties.                                                             *)
(***************************************************************************)
History == agent.history

Done == loop.pc = "done"

\* an Observation built by sense() is held by the loop
HasObs == loop.pc \in {"act", "eat", "learn", "record"}

LastRecord == History[Len(History)]

\* the energy a tick started from: the energy recorded by the tick before it,
\* or the energy the episode started with
TickStart(i) == IF i = 1 THEN audit.energy0 ELSE History[i - 1].energy

\* C1 (as claimed): at every observation point the energy lies in
\* [0, max_energy]: the normalized energy of every Observation is in [0, 1]
\* and so is the energy field of every HistoryRecord.
C1_EnergyInRange ==
    /\ HasObs => /\ 0 <= loop.obs.norm_energy[1]
                 /\ loop.obs.norm_energy[1] <= loop.obs.norm_energy[2]
    /\ \A i \in 1..Len(History) :
          0 <= History[i].energy /\ History[i].energy <= agent.max_energy

\* C1 (amended): at every observation point the energy is at most max_energy;
\* it is not bounded below by 0, only by the costs charged since the death
\* check: above -sensing_cost in an Observation and above
\* -(sensing_cost + acting_cost) in a HistoryRecord.
C1_EnergyBounded ==
    /\ HasObs => /\ -agent.sensing_cost < loop.obs.norm_energy[1]
                 /\ loop.obs.norm_energy[1] <= loop.obs.norm_energy[2]
                 /\ loop.obs.norm_energy[2] = agent.max_energy
    /\ \A i \in 1..Len(History) :
          /\ -(agent.sensing_cost + agent.acting_cost) < History[i].energy
          /\ History[i].energy <= agent.max_energy

\* C1 witness: a record with a negative energy has been appended.
C1_Witness ==
    /\ Len(History) > 0
    /\ LastRecord.energy < 0
    /\ loop.pc = "for"

\* C2 (as claimed): a learn() call made with energy <= learning_threshold
\* changes neither the energy nor the policy; a call made with
\* energy > learning_threshold charges learning_cost once and takes one
\* optimizer step.
C2_LearnGate ==
    loop.last = "learn" =>
        /\ loop.account.start <= agent.learning_threshold =>
              loop.account.charged = 0 /\ loop.account.updated = 0
        /\ loop.account.start > agent.learning_threshold =>
              /\ loop.account.charged = agent.learning_cost
              /\ loop.account.updated = 1

\* C3 (as claimed): an episode with a record ends DEAD if and only if the
\* last recorded energy is <= 0.
C3_DeadIffLastRecordDepleted ==
    (Done /\ Len(History) > 0) =>
        (loop.status = "DEAD" <=> LastRecord.energy <= 0)

\* C3 (amended): a tick goes on exactly when its post-decay energy is > 0, so
\* an episode ends DEAD if and only if a tick within the step budget found
\* the post-decay energy <= 0; the last recorded energy of a DEAD episode is
\* that value plus energy_decay (it may be > 0), and a COMPLETED episode keeps
\* its last recorded energy, whatever its sign.
C3_DeadIffPostDecayDepleted ==
    /\ loop.pc = "sense" => agent.energy > 0
    /\ loop.pc \in {"sense", "act", "eat", "learn", "record"} =>
          loop.account.start - agent.energy_decay > 0
    /\ Done =>
          /\ loop.status = "DEAD" <=>
                (Len(History) < loop.max_steps /\ agent.energy <= 0)
          /\ (loop.status = "DEAD" /\ Len(History) > 0) =>
                agent.energy = LastRecord.energy - agent.energy_decay
          /\ (loop.status = "DEAD" /\ Len(History) = 0) =>
                agent.energy = audit.energy0 - agent.energy_decay
          /\ (loop.status = "COMPLETED" /\ Len(History) > 0) =>
                agent.energy = LastRecord.energy

\* C3 witness: a DEAD episode whose last recorded energy was positive.
C3_Witness ==
    /\ Done
    /\ loop.status = "DEAD"
    /\ Len(History) > 0
    /\ LastRecord.energy > 0

\* what C4 says of every state: at most max_steps ticks are run, the loop has
\* ended exactly when the episode is DEAD or COMPLETED, DEAD means the
\* post-decay energy was <= 0 and COMPLETED means max_steps ticks were run.
C4_Safe ==
    /\ loop.pc # "new" =>
          /\ Len(History) <= loop.max_steps
          /\ world.sim_steps <= loop.max_steps
    /\ Done <=> loop.status \in {"DEAD", "COMPLETED"}
    /\ loop.status \in {"ALIVE", "DEAD", "COMPLETED"}
    /\ loop.status = "DEAD" =>
          agent.energy <= 0 /\ agent.step_count < loop.max_steps
    /\ loop.status = "COMPLETED" =>
          Len(History) = loop.max_steps /\ world.sim_steps = loop.max_steps

\* C4: every run of live_and_learn(max_steps) ends, after at most max_steps
\* ticks, in exactly one of DEAD (post-decay energy <= 0) and COMPLETED
\* (max_steps ticks run).
C4_Terminates == []C4_Safe /\ <>Done

\* C4 witness: an episode that ate and ran the whole step budget has ended
\* COMPLETED.
C4_Witness ==
    /\ Done
    /\ loop.status = "COMPLETED"
    /\ loop.max_steps = MaxSteps
    /\ \E i \in 1..Len(History) : History[i].ate

\* the index of the tick the loop ended on: the tick that found the agent
\* dead, or max_steps when the budget ran out
TerminalStepIndex ==
    IF loop.status = "DEAD" THEN agent.step_count ELSE loop.max_steps

\* C5: at the end of an episode len(history) equals the terminal step index,
\* the number of ticks that ran to completion (one physics step each); the
\* tick that detects death adds no record.
C5_HistoryLength ==
    Done => /\ Len(History) = TerminalStepIndex
            /\ Len(History) = world.sim_steps

\* C5 witness: an episode that died after completing at least two ticks.
C5_Witness ==
    /\ Done
    /\ loop.status = "DEAD"
    /\ Len(History) >= 2

\* C6: the energy never exceeds max_energy, after the decay of a tick and
\* after a food gain alike.
C6_EnergyCapped == agent.energy <= agent.max_energy

\* C6 witness: a gain has been cut at max_energy.
C6_Witness ==
    /\ loop.pc = "learn"
    /\ loop.ate_food
    /\ agent.energy = agent.max_energy
    /\ loop.account.gained < GainLow

\* C7: epsilon never increases from one step to the next, and it always lies
\* between epsilon_min and the value the episode started with.
C7_EpsilonMonotone ==
    /\ [](/\ agent.epsilon_min <= agent.epsilon
          /\ agent.epsilon <= audit.epsilon0)
    /\ [][agent'.epsilon <= agent.epsilon]_vars

\* C7 witness: the decay has been stopped by the floor.
C7_Witness ==
    /\ loop.pc = "eat"
    /\ agent.epsilon = agent.epsilon_min
    /\ audit.epsilon0 > agent.epsilon_min
    /\ (audit.epsilon0 * agent.epsilon_decay) \div 1000 < agent.epsilon_min

\* C8: a record has can_learn set if and only if learn() charged the learning
\* cost and took an optimizer step in that tick; no update is made outside
\* the tick that permitted it.
C8_FlagMatchesLearning ==
    /\ Len(audit.ticks) = Len(History)
    /\ \A i \in 1..Len(History) :
          /\ History[i].can_learn =>
                /\ audit.ticks[i].charged = agent.learning_cost
                /\ audit.ticks[i].updated = 1
          /\ ~History[i].can_learn =>
                /\ audit.ticks[i].charged = 0
                /\ audit.ticks[i].updated = 0
    /\ loop.pc \in {"for", "done"} =>
          agent.updates = Cardinality({i \in 1..Len(History) :
                                          History[i].can_learn})

\* C8 witness: a tick that learned followed by a tick that could not.
C8_Witness ==
    /\ Len(History) >= 2
    /\ History[1].can_learn
    /\ ~History[2].can_learn
    /\ agent.updates = 1

ScenarioA ==
    /\ audit.energy0 = 100000
    /\ agent.max_energy = 150000
    /\ agent.energy_decay = 0
    /\ agent.sensing_cost = 0
    /\ agent.acting_cost = 0
    /\ agent.learning_cost = 0

\* no food has been consumed so far in the episode
NothingEaten ==
    /\ ~loop.ate_food
    /\ \A i \in 1..Len(History) : ~History[i].ate

\* C10: under the settings of Scenario A, as long as no food has been
\* consumed, the agent is not DEAD and its energy is still 100.
C10_ScenarioA ==
    (ScenarioA /\ NothingEaten) =>
        agent.energy = 100000 /\ loop.status # "DEAD"

\* C10 witness: Scenario A has run the whole step budget without food.
C10_Witness ==
    /\ ScenarioA
    /\ NothingEaten
    /\ Done
    /\ loop.max_steps = MaxSteps
    /\ Len(History) = MaxSteps
    /\ agent.updates = MaxSteps

\* the settings of Scenario B hold for tick i: it starts with energy 10 under
\* a learning threshold of 50
ScenarioB(i) ==
    /\ TickStart(i) = 10000
    /\ agent.learning_threshold = 50000

InBounds(pos) ==
    /\ SpawnLow <= pos[1] /\ pos[1] <= SpawnHigh
    /\ SpawnLow <= pos[2] /\ pos[2] <= SpawnHigh

\* the latest call was check_food_consumption, made with the robot at the
\* position of a food item (distance 0)
AteAtDistanceZero ==
    /\ loop.pc = "api"
    /\ loop.last = "eat"
    /\ loop.account.near2 = 0

ScenarioD ==
    /\ loop.pc = "api"
    /\ loop.last = "act"
    /\ loop.account.epsilon = 0
    /\ loop.obs.min_dist2 = 50 * 50

\* C13: act() called with distance-to-food 5.0 and epsilon 0 takes the
\* exploit tier and selects the argmax action for every outcome of the
\* random draws; the heuristic and the random tier are never taken.
C13_AlwaysExploit ==
    ScenarioD =>
       /\ loop.tier = "exploit"
       /\ \A coin1 \in CoinDraws, coin2 \in CoinDraws,
             rnd \in 0..(NumActions - 1), best \in 0..(NumActions - 1) :
             SelectAction(loop.obs, loop.account.epsilon, coin1, coin2, rnd,
                          best)
             = [tier |-> "exploit", idx |-> best]

\* C13 witness: act() has run in Scenario D, a force applied and the physics
\* stepped.
C13_Witness ==
    /\ ScenarioD
    /\ world.forces = 1
    /\ world.sim_steps = 1
    /\ loop.action_idx = 3

\* the step is a call of check_food_consumption, made directly or by a tick
EatCall ==
    \/ /\ loop.pc = "api"
       /\ loop'.last = "eat"
       /\ loop'.calls = loop.calls + 1
    \/ /\ loop.pc = "eat"
       /\ loop'.pc = "learn"

\* the items less than 0.8 away from the robot that resolve during the call:
\* their body exists and their lookup did not raise
Reachable ==
    {i \in 1..Len(world.food) :
        /\ world.food[i].live
        /\ i \notin loop'.account.unresolved
        /\ Dist2(world.robot, world.food[i].pos)
           < ConsumeRadius * ConsumeRadius}

\* C20: check_food_consumption returns consumed exactly when some resolvable
\* item lies less than 0.8 from the robot; the item consumed is the first
\* such item in scan order and no other item moves; when there is none, it
\* returns not consumed and leaves the energy and every food position as
\* they were.
C20_ConsumedIffWithin ==
    [][EatCall =>
          /\ loop'.ate_food <=> Reachable # {}
          /\ Reachable # {} =>
                /\ loop'.account.item \in Reachable
                /\ \A j \in Reachable : loop'.account.item <= j
                /\ \A k \in 1..Len(world.food) :
                      k # loop'.account.item =>
                         world'.food[k] = world.food[k]
                /\ agent'.energy >= agent.energy
          /\ Reachable = {} =>
                /\ loop'.account.item = 0
                /\ agent'.energy = agent.energy
                /\ world'.food = world.food]_vars

\* the energy charged for computation during tick i: what the tick started
\* with, less the ambient decay, plus the food gain, less what it ended with
ComputationCharged(i) ==
    TickStart(i) - agent.energy_decay + audit.ticks[i].gained
    - History[i].energy

\* C17: the total_computation_cost of every record is the energy charged for
\* computation during its tick: sensing_cost + acting_cost + learning_cost
\* when a learning update was charged, sensing_cost + acting_cost otherwise.
C17_CostMatchesCharge ==
    \A i \in 1..Len(History) :
       /\ History[i].total_computation_cost = ComputationCharged(i)
       /\ audit.ticks[i].updated = 1 =>
             /\ audit.ticks[i].charged = agent.learning_cost
             /\ History[i].total_computation_cost =
                   agent.sensing_cost + agent.acting_cost
                   + agent.learning_cost
       /\ audit.ticks[i].updated = 0 =>
             /\ audit.ticks[i].charged = 0
             /\ History[i].total_computation_cost =
                   agent.sensing_cost + agent.acting_cost

\* C17 witness: a record of a tick that was charged for learning and one of a
\* tick that was not, under costs above zero.
C17_Witness ==
    /\ Len(History) >= 2
    /\ audit.ticks[1].updated = 1
    /\ History[1].total_computation_cost = 100
    /\ audit.ticks[2].updated = 0
    /\ History[2].total_computation_cost = 50

\* C18: the history is append-only within an episode: the step that
\* completes a tick appends exactly one record, no other step changes the
\* history, no record already there is changed or removed, and the i-th
\* record (from 0) carries the step index i.
C18_AppendOnly ==
    [][/\ loop.pc = "record" =>
             /\ Len(History') = Len(History) + 1
             /\ SubSeq(History', 1, Len(History)) = History
             /\ History'[Len(History')].step = Len(History)
       /\ loop.pc # "record" => History' = History
       /\ \A i \in 1..Len(History') : History'[i].step = i - 1]_vars

\* C18 witness: three ticks have completed and their records are in place.
C18_Witness ==
    /\ loop.pc = "for"
    /\ world.sim_steps = 3
    /\ Len(History) = 3
    /\ History[1].step = 0
    /\ History[3].step = 2

\* the items whose entry differs before and after the step
Moved == {k \in 1..NumFood : world'.food[k] # world.food[k]}

\* C19: the food collection keeps the 16 items it has after setup through
\* every step of every tick, and the food check of a tick relocates at most
\* one item, grants at most one gain and leaves every other item where it
\* was.
C19_FoodCollectionStable ==
    [][/\ Len(world.food) = NumFood
       /\ Len(world'.food) = NumFood
       /\ NumFood = 16
       /\ loop.pc = "eat" =>
             /\ Cardinality(Moved) <= 1
             /\ Moved \subseteq {loop'.account.item}
             /\ loop'.account.grants <= 1
             /\ agent'.energy - agent.energy \in 0..GainHigh
             /\ ~loop'.ate_food =>
                   Moved = {} /\ agent'.energy = agent.energy]_vars

\* C16: once an episode has ended, a further call of live_and_learn on the
\* same instance appends no record: the history stays as the ended episode
\* left it, one sequence of records with the step indices 0..n-1.
C16_NotRestartable ==
    loop.calls >= 1 =>
       /\ Len(History) = loop.base
       /\ \A i \in 1..Len(History) : History[i].step = i - 1

\* what the latest call charged instance k
Charged(k) == loop.account.start[k] - agent[k].energy

\* the two instances are configured alike except for landauer_cost
AlikeButLandauer ==
    [agent[1] EXCEPT !.landauer_cost = 0, !.energy = 0, !.epsilon = 0,
                     !.updates = 0, !.history = <<>>, !.step_count = 0]
    = [agent[2] EXCEPT !.landauer_cost = 0, !.energy = 0, !.epsilon = 0,
                       !.updates = 0, !.history = <<>>, !.step_count = 0]

\* C15: of two instances that differ in landauer_cost only and are driven by
\* the same draws and physics, the one with the smaller landauer_cost is
\* charged less for each sensing, acting and learning computation that
\* costs the other one energy.
C15_CheaperLandauer ==
    (/\ loop.pc = "pair"
     /\ loop.last \in {"sense", "act", "learn"}
     /\ AlikeButLandauer
     /\ agent[1].landauer_cost < agent[2].landauer_cost
     /\ Charged(2) > 0)
    => Charged(1) < Charged(2)

\* what instance k can observe of its own: its robot and food bodies,
\* whether they can still be queried, its energy, epsilon and history, and
\* the random numbers it will be given next
Observed(k) ==
    [robot |-> world.robot[k], food |-> world.food[k], up |-> world.up,
     energy |-> agent[k].energy, epsilon |-> agent[k].epsilon,
     history |-> agent[k].history, draws |-> world.draws]

\* C14: with two instances in one process, no operation of one of them
\* (sense, act with its physics step, check_food_consumption, cleanup)
\* changes the bodies, food positions, energy, epsilon, random draws or
\* history the other one observes.
C14_NoInterference ==
    [][\A k \in 1..2 :
          (loop'.calls = loop.calls + 1 /\ loop'.actor = k)
          => Observed(Other(k))' = Observed(Other(k))]_vars

\* the latest call was calculate_shaped_reward on the drawn observation
Rewarded == loop.pc = "obs" /\ loop.last = "reward"

\* C21: the reward of a consumption event is 50.0 and every reward without
\* consumption is strictly smaller, at every distance: at most 0.995 (at
\* distance 0), and below zero beyond max_dist, where it is not clamped.
C21_EatRewardDominates ==
    Rewarded =>
       /\ loop.ate_food => loop.reward = 50000
       /\ ~loop.ate_food =>
             /\ loop.reward < 50000
             /\ loop.reward <= 995
             /\ loop.obs.min_dist2 > MaxDist * MaxDist => loop.reward < 0
             /\ \A o \in {ObsAt(agent, <<dx, dy>>) :
                             dx \in Offsets, dy \in Offsets} :
                   loop.reward < calculate_shaped_reward(o, TRUE)

\* C21 witness: a reward without consumption at a distance beyond max_dist,
\* negative and not clamped.
C21_Witness ==
    /\ Rewarded
    /\ ~loop.ate_food
    /\ loop.obs.rel = <<130, 130>>
    /\ loop.reward < -500

\* the latest call was act() on the drawn observation and took the
\* heuristic tier
HeuristicFired ==
    /\ loop.pc = "obs"
    /\ loop.last = "act"
    /\ loop.tier = "heuristic"

\* C28: when the heuristic tier fires, the force goes toward the food along
\* the axis with the larger absolute offset: +x if |dx| > |dy| and dx > 0,
\* -x if |dx| > |dy| and dx < 0, +y if |dy| > |dx| and dy > 0, -y if
\* |dy| > |dx| and dy < 0.
C28_HeuristicDirection ==
    HeuristicFired =>
       LET dx == loop.obs.rel[1]
           dy == loop.obs.rel[2]
           force == ForceOf(loop.action_idx)
       IN /\ (Abs(dx) > Abs(dy) /\ dx > 0) => force = <<40, 0>>
          /\ (Abs(dx) > Abs(dy) /\ dx < 0) => force = <<-40, 0>>
          /\ (Abs(dy) > Abs(dx) /\ dy > 0) => force = <<0, 40>>
          /\ (Abs(dy) > Abs(dx) /\ dy < 0) => force = <<0, -40>>

\* C28 witness: the heuristic has fired on an offset with both components
\* non-zero and the larger one negative, and chose -x.
C28_Witness ==
    /\ HeuristicFired
    /\ loop.obs.rel = <<-30, 3>>
    /\ loop.action_idx = 1
    /\ world.forces = 1

\* get_survival_stats has been called
StatsTaken == loop.pc = "ended" /\ loop.last = "stats"

\* the quotient q, a pair (numerator, denominator), lies in [0, 1]
InUnitInterval(q) == q[2] > 0 /\ 0 <= q[1] /\ q[1] <= q[2]

\* C22: for a non-empty history get_survival_stats returns survival_time =
\* len(history), total_food_consumed = the number of records with ate,
\* learning_episodes = the number of records with can_learn, learning_ratio
\* = learning_episodes / survival_time and feeding_efficiency =
\* total_food_consumed / survival_time, both ratios in [0, 1].
C22_SurvivalStats ==
    (StatsTaken /\ History # <<>>) =>
       LET n == Len(History)
           ate == Cardinality({i \in 1..n : History[i].ate})
           learned == Cardinality({i \in 1..n : History[i].can_learn})
       IN /\ loop.stats.survival_time = n
          /\ loop.stats.total_food_consumed = ate
          /\ loop.stats.learning_episodes = learned
          /\ loop.stats.learning_ratio = <<learned, n>>
          /\ loop.stats.feeding_efficiency = <<ate, n>>
          /\ InUnitInterval(loop.stats.learning_ratio)
          /\ InUnitInterval(loop.stats.feeding_efficiency)

\* C22 witness: the statistics of a history of three records, two with food
\* and one with learning.
C22_Witness ==
    /\ StatsTaken
    /\ Len(History) = 3
    /\ loop.stats.feeding_efficiency = <<2, 3>>
    /\ loop.stats.learning_ratio = <<1, 3>>

\* C23: the summary metrics survival_time, learning_ratio and
\* feeding_efficiency are defined for every episode, an episode with an
\* empty history included, no denominator being zero.
C23_MetricsDefined ==
    StatsTaken =>
       /\ {"survival_time", "learning_ratio", "feeding_efficiency"}
             \subseteq DOMAIN loop.stats
       /\ loop.stats.learning_ratio[2] > 0
       /\ loop.stats.feeding_efficiency[2] > 0

\* C24: the tick whose energy after the ambient decay is <= 0 stops there:
\* the energy loses the decay and no sensing, acting or learning cost,
\* epsilon, the policy parameters, the robot and the food stay as they
\* were, no force is applied, no physics step taken and no record appended.
C24_DeathStopsTick ==
    [][(loop.pc = "for" /\ loop'.status = "DEAD") =>
          /\ loop'.pc = "done"
          /\ agent'.energy = agent.energy - agent.energy_decay
          /\ agent'.energy <= 0
          /\ agent'.epsilon = agent.epsilon
          /\ agent'.updates = agent.updates
          /\ agent'.history = agent.history
          /\ world' = world
          /\ loop'.obs = NoObs
          /\ loop'.reward = 0
          /\ audit' = audit]_vars

\* C24 witness: the agent has died in its third tick, with two records and
\* two physics steps behind it.
C24_Witness ==
    /\ Done
    /\ loop.status = "DEAD"
    /\ loop.step = 2
    /\ Len(History) = 2
    /\ world.sim_steps = 2
    /\ agent.energy = History[2].energy - agent.energy_decay

\* the energy in the middle of tick i, after the decay and the sensing and
\* acting costs
MidTick(i) ==
    TickStart(i) - agent.energy_decay - agent.sensing_cost
    - agent.acting_cost

Sensed == loop.pc = "api" /\ loop.last = "sense"

\* the food items that resolve
Resolvable == {i \in 1..Len(world.food) : world.food[i].live}

\* the squared planar distance from the robot to item i
FoodDist2(i) == Dist2(world.robot, world.food[i].pos)

\* the offset of item i from the robot
FoodOffset(i) ==
    <<world.food[i].pos[1] - world.robot[1],
      world.food[i].pos[2] - world.robot[2]>>

\* C26: an item that does not resolve is skipped by both scans without an
\* error: sense() reports the nearest of the items that do resolve, however
\* near a removed one is, and distance inf with the offset of the origin
\* when none resolves; check_food_consumption consumes only an item that
\* resolves, and does consume one that is within reach behind a removed
\* one; with no item resolving it returns not consumed.
C26_UnresolvableSkipped ==
    /\ Sensed =>
          /\ Resolvable = {} =>
                /\ loop.obs.min_dist2 = Infinity
                /\ loop.obs.rel = <<-world.robot[1], -world.robot[2]>>
          /\ Resolvable # {} =>
                /\ \E i \in Resolvable :
                      /\ loop.obs.min_dist2 = FoodDist2(i)
                      /\ loop.obs.rel = FoodOffset(i)
                /\ \A j \in Resolvable : loop.obs.min_dist2 <= FoodDist2(j)
    /\ (loop.pc = "api" /\ loop.last = "eat") =>
          /\ loop.ate_food <=> loop.account.item # 0
          /\ loop.account.item # 0 => world.food[loop.account.item].live
          /\ loop.ate_food <=>
                loop.account.near2 < ConsumeRadius * ConsumeRadius
          /\ Resolvable = {} => ~loop.ate_food /\ loop.account.gained = 0

\* C26 witness: with the first item removed at the robot's own position,
\* sense() has reported the second item, half a unit away, and the food
\* check after it has consumed that item.
C26_Witness ==
    /\ loop.pc = "api"
    /\ loop.last = "eat"
    /\ loop.calls = 2
    /\ ~world.food[1].live
    /\ world.food[1].pos = world.robot
    /\ loop.obs.min_dist2 = 25
    /\ loop.ate_food
    /\ loop.account.item = 2

\* C27: sense() reports the nearest item that resolves: the distance is the
\* minimum over those items, the offset is that of the first item in scan
\* order at that distance.
C27_NearestFirstInScan ==
    (Sensed /\ Resolvable # {}) =>
       /\ \A j \in Resolvable : loop.obs.min_dist2 <= FoodDist2(j)
       /\ \E i \in Resolvable :
             /\ FoodDist2(i) = loop.obs.min_dist2
             /\ \A j \in Resolvable :
                   j < i => FoodDist2(j) > loop.obs.min_dist2
             /\ loop.obs.rel = FoodOffset(i)

\* C27 witness: with the first two items both at distance 5.0, sense() has
\* reported the offset of the first.
C27_Witness ==
    /\ Sensed
    /\ FoodDist2(1) = 2500
    /\ FoodDist2(2) = 2500
    /\ world.food[1].pos # world.food[2].pos
    /\ loop.obs.min_dist2 = 2500
    /\ loop.obs.rel = FoodOffset(1)

\* C29: the step that is act() replaces epsilon by max(epsilon *
\* epsilon_decay, epsilon_min), once, whichever tier selected the action;
\* no other step (the death check, sense, the food check, learn, the
\* record) changes epsilon.
C29_EpsilonUpdatedOncePerAct ==
    [][/\ loop.pc = "act" =>
             /\ loop'.tier \in {"heuristic", "explore", "exploit"}
             /\ agent'.epsilon =
                   Max((agent.epsilon * agent.epsilon_decay) \div 1000,
                       agent.epsilon_min)
       /\ loop.pc # "act" => agent'.epsilon = agent.epsilon]_vars

\* C29 witness: act() has run three times, the latest in the heuristic
\* tier, and epsilon, started at 0.15 under the fast decay, is at its floor.
C29_Witness ==
    /\ loop.pc = "eat"
    /\ loop.step = 2
    /\ loop.tier = "heuristic"
    /\ audit.epsilon0 = 150000
    /\ agent.epsilon = 100000
    /\ world.forces = 3

\* C30: the step that is act() selects one action index in 0..3, applies
\* one force and advances the physics by one step, and nothing else applies
\* a force or advances the physics; so when the episode has ended the
\* number of physics steps equals len(history).
C30_OneForceOneStepPerAct ==
    [][/\ loop.pc = "act" =>
             /\ loop'.action_idx \in 0..3
             /\ world'.forces = world.forces + 1
             /\ world'.sim_steps = world.sim_steps + 1
       /\ loop.pc # "act" =>
             /\ world'.forces = world.forces
             /\ world'.sim_steps = world.sim_steps
       /\ loop'.pc = "done" =>
             /\ world'.sim_steps = Len(History')
             /\ world'.forces = Len(History')]_vars

\* C30 witness: an episode has ended DEAD after two recorded ticks, with two
\* forces applied and two physics steps taken.
C30_Witness ==
    /\ Done
    /\ loop.status = "DEAD"
    /\ Len(History) = 2
    /\ world.forces = 2
    /\ world.sim_steps = 2
    /\ loop.max_steps = 3

\* C31: a sense() call charges sensing_cost and has no other effect: epsilon,
\* the policy parameters, step_count, the history, the robot, the food
\* items, the forces applied and the physics steps taken are as before the
\* call, and the observation it returns is the one of that unchanged world;
\* a call that raises, the physics client being gone, has charged
\* sensing_cost and done nothing else.
C31_SenseOnlyCharges ==
    [][/\ (loop.pc = "api" /\ loop'.last = "sense raised"
           /\ loop'.calls = loop.calls + 1) =>
             /\ agent' = [agent EXCEPT !.energy = @ - agent.sensing_cost]
             /\ world' = world
             /\ loop'.obs = loop.obs
       /\ (loop.pc = "api" /\ loop'.last = "sense"
        /\ loop'.calls = loop.calls + 1) =>
          /\ agent' = [agent EXCEPT !.energy = @ - agent.sensing_cost]
          /\ agent'.epsilon = agent.epsilon
          /\ agent'.updates = agent.updates
          /\ agent'.step_count = agent.step_count
          /\ agent'.history = agent.history
          /\ world'.robot = world.robot
          /\ world'.food = world.food
          /\ world'.sim_steps = world.sim_steps
          /\ world'.forces = world.forces
          /\ loop'.obs.pos = world.robot
          /\ loop'.obs.norm_energy = <<agent'.energy, agent.max_energy>>]_vars

\* C31 witness: sense() has been called after an act() that moved the robot,
\* and has charged its cost with the physics step count still at one.
C31_Witness ==
    /\ Sensed
    /\ loop.calls = 2
    /\ world.sim_steps = 1
    /\ world.robot = <<0, 45>>
    /\ loop.obs.pos = <<0, 45>>
    /\ agent.energy = loop.account.start - agent.sensing_cost
    /\ agent.sensing_cost > 0

\* C32: a record with can_learn set carries an energy above
\* learning_threshold - learning_cost (the energy left once the update was
\* paid for, which may be below learning_threshold), and a record with
\* can_learn not set carries an energy of at most learning_threshold.
C32_FlagBoundsEnergy ==
    \A i \in 1..Len(History) :
       /\ History[i].can_learn =>
             /\ History[i].energy >
                   agent.learning_threshold - agent.learning_cost
             /\ History[i].energy + agent.learning_cost >
                   agent.learning_threshold
       /\ ~History[i].can_learn =>
             History[i].energy <= agent.learning_threshold

\* C32 witness: a record with can_learn set and an energy below the
\* threshold, followed by a record with can_learn not set.
C32_Witness ==
    /\ Len(History) >= 2
    /\ History[1].can_learn
    /\ History[1].energy < agent.learning_threshold
    /\ agent.learning_cost > 0
    /\ ~History[2].can_learn

\* C33: the energy rises only through a recorded consumption: a completed
\* tick whose record has ate = false ends with an energy that is at most
\* the energy it started with, also when the lookup or the relocation of a
\* food item fails inside check_food_consumption.
C33_RisesOnlyByRecordedConsumption ==
    \A i \in 1..Len(History) :
       ~History[i].ate => History[i].energy <= TickStart(i)

\* C34: the terminal cause can be read off the history length: once an
\* episode on a fresh instance has ended, it ended DEAD if and only if
\* len(history) < max_steps and COMPLETED if and only if
\* len(history) = max_steps.
C34_CauseFromHistoryLength ==
    Done =>
       /\ loop.status = "DEAD" <=> Len(History) < loop.max_steps
       /\ loop.status = "COMPLETED" <=> Len(History) = loop.max_steps

\* C34 witness: an episode of one tick allowed has ended DEAD with an empty
\* history.
C34_Witness ==
    /\ Done
    /\ loop.status = "DEAD"
    /\ loop.max_steps = 1
    /\ Len(History) = 0

\* C35: after a DEAD episode step_count equals len(history), the index of
\* the tick that found the agent depleted; after a COMPLETED episode with
\* max_steps > 0 step_count equals len(history) - 1 and max_steps - 1.
C35_StepCountPerCause ==
    Done =>
       /\ loop.status = "DEAD" =>
             /\ agent.step_count = Len(History)
             /\ agent.step_count = loop.step
       /\ (loop.status = "COMPLETED" /\ loop.max_steps > 0) =>
             /\ agent.step_count = Len(History) - 1
             /\ agent.step_count = loop.max_steps - 1

\* C35 witness: an episode has run its whole budget of MaxSteps ticks and
\* step_count is left one below it.
C35_Witness ==
    /\ Done
    /\ loop.status = "COMPLETED"
    /\ loop.max_steps = MaxSteps
    /\ Len(History) = MaxSteps
    /\ agent.step_count = MaxSteps - 1
    /\ agent.step_count > 0

\* what a tick without learning costs the agent
TickCost == agent.energy_decay + agent.sensing_cost + agent.acting_cost

\* ceil(initial_energy / (energy_decay + sensing_cost + acting_cost))
StarvationBound == (audit.energy0 + TickCost - 1) \div TickCost

\* what C36 says of every state of an episode without food whose ticks cost
\* energy: no tick with an index above the bound is begun, and with
\* max_steps above the bound the episode ends DEAD, in a tick whose index is
\* at most the bound
C36_Safe ==
    (NothingEaten /\ TickCost > 0 /\ loop.pc # "new") =>
       /\ loop.step <= StarvationBound
       /\ (Done /\ loop.max_steps > StarvationBound) =>
             /\ loop.status = "DEAD"
             /\ agent.step_count <= StarvationBound
             /\ Len(History) <= StarvationBound

PositionBeforeAct ==
    IF Len(History) = 0 THEN <<0, 0>> ELSE LastRecord.position

\* the shaped reward at the squared distance d2, as lines 235-240 compute it
ShapedAt(d2) == ((120 - Norm(d2)) * 1000) \div 120 - 5

\* C37: when a tick has computed its reward, the observation it used is the
\* one sensed before the tick's action, at the position the robot had then:
\* a reward without consumption is the shaped reward at the distance to the
\* nearest food from that position, not from the position after the step,
\* while the consumption flag tells whether food was within the radius of
\* the position after the step; the action and the observation held for
\* the learning update are those of this tick.
C37_RewardFromPreActionObservation ==
    loop.pc = "record" =>
       /\ loop.obs.pos = PositionBeforeAct
       /\ loop.ate_food <=>
             loop.account.near2 < ConsumeRadius * ConsumeRadius
       /\ loop.ate_food => loop.reward = 50000
       /\ ~loop.ate_food =>
             /\ loop.obs.min_dist2 =
                   NearestFood(PositionBeforeAct, world.food).min_dist2
             /\ loop.reward = ShapedAt(loop.obs.min_dist2)
             /\ loop.account.near2 =
                   NearestFood(world.robot, world.food).min_dist2
       /\ loop.tier # "none"
       /\ loop.action_idx \in 0..(NumActions - 1)
       /\ world.sim_steps = Len(History) + 1

\* C37 witness: the robot sensed food half a unit away, the step took it
\* 4.5 units off, nothing was consumed, and the reward is the one of half a
\* unit.
C37_Witness ==
    /\ loop.pc = "record"
    /\ ~loop.ate_food
    /\ loop.obs.pos = <<0, 0>>
    /\ loop.obs.min_dist2 = 25
    /\ world.robot = <<0, 45>>
    /\ loop.account.near2 > 1600
    /\ loop.reward = 953
    /\ ~loop.can_learn

\* the latest call was act(), whether it returned or raised at its first
\* pybullet call
Acted == loop.pc = "api" /\ loop.last \in {"act", "act raised"}

\* the probability, per mille, that an act() call holding obs gets past
\* the heuristic tier to the test of line 175: with food sensed nearer than
\* 4.0 the draw of line 169 comes first and lets the call through when it
\* is not below 0.5
PassChance(obs) ==
    IF obs.min_dist2 < HeuristicRadius * HeuristicRadius
    THEN (CoinUnit - HeuristicChance) \div 1000
    ELSE CoinUnit \div 1000

\* the probability, in billionths, that an act() call holding obs takes the
\* exploration tier: it gets to line 175, and the draw made there is below
\* epsilon with probability epsilon
ExploreChance(obs, epsilon) == PassChance(obs) * Min(epsilon, CoinUnit)

\* act() has raised epsilon to its floor where it was below, and left it at
\* or above the floor otherwise
FloorRestored ==
    /\ agent.epsilon >= agent.epsilon_min
    /\ loop.account.epsilon < agent.epsilon_min =>
          agent.epsilon = agent.epsilon_min

\* C38 as stated: after an act() call epsilon is at least epsilon_min,
\* whatever it was before the call; an epsilon below epsilon_min (0, say,
\* under epsilon_min = 0.1) is raised to epsilon_min by the call, so that
\* the next act() call takes the exploration tier with probability at least
\* epsilon_min.
C38_ExploresAtFloorRate ==
    Acted =>
       /\ FloorRestored
       /\ ExploreChance(loop.obs, agent.epsilon) >= 1000 * agent.epsilon_min

\* C38 amended: after an act() call epsilon is at least epsilon_min,
\* whatever it was before the call, and an epsilon below epsilon_min is
\* raised to epsilon_min by the call.  The next act() call takes the
\* exploration tier with probability at least epsilon_min when the
\* observation it is given has no food nearer than 4.0, and with
\* probability at least 0.5 * epsilon_min when it has: the heuristic tier
\* is tried first and takes half of those calls.  Whenever the heuristic
\* tier does not fire, every draw below epsilon_min explores.
C38_FloorRestoredByAct ==
    Acted =>
       /\ FloorRestored
       /\ loop.obs.min_dist2 >= HeuristicRadius * HeuristicRadius =>
             ExploreChance(loop.obs, agent.epsilon)
             >= 1000 * agent.epsilon_min
       /\ loop.obs.min_dist2 < HeuristicRadius * HeuristicRadius =>
             ExploreChance(loop.obs, agent.epsilon)
             >= ((CoinUnit - HeuristicChance) \div 1000) * agent.epsilon_min
       /\ \A coin1 \in CoinDraws, coin2 \in CoinDraws,
             rnd \in 0..(NumActions - 1), best \in 0..(NumActions - 1) :
             LET sel == SelectAction(loop.obs, agent.epsilon, coin1, coin2,
                                     rnd, best)
             IN /\ (coin2 < agent.epsilon_min /\ sel.tier # "heuristic") =>
                      sel.tier = "explore" /\ sel.idx = rnd
                /\ sel.tier = "heuristic" =>
                      /\ loop.obs.min_dist2
                         < HeuristicRadius * HeuristicRadius
                      /\ coin1 < HeuristicChance

\* C38 witness: an instance whose epsilon was set to 0 has made two act()
\* calls, the first raised epsilon to 0.1 and the second explored.
C38_Witness ==
    /\ Acted
    /\ loop.calls = 2
    /\ world.forces = 2
    /\ audit.epsilon0 = 0
    /\ loop.account.epsilon = agent.epsilon_min
    /\ agent.epsilon = agent.epsilon_min
    /\ loop.tier = "explore"

====
